---------------------------- MODULE Spec2Model ----------------------------
(***************************************************************************)
(* Aurora QA: the rule-based question-answering engine of app/qa_engine.py *)
(* behind the /ask endpoint of app/api.py.                                 *)
(*                                                                         *)
(* A Python str is a sequence of one-character strings, so that lower(),   *)
(* split(), the "in" operator and the regular expressions are computed on  *)
(* characters as the code computes them.  None is a value that is no       *)
(* character sequence.  The characters are ASCII.                          *)
(***************************************************************************)
EXTENDS Integers, Sequences, FiniteSets, TLC

None == <<"<None>">>

Truthy(v) == v # None /\ v # <<>>

(***************************************************************************)
(* Characters and the str methods the engine uses.                         *)
(***************************************************************************)
UpperLetters == <<"A","B","C","D","E","F","G","H","I","J","K","L","M",
                  "N","O","P","Q","R","S","T","U","V","W","X","Y","Z">>

LowerLetters == <<"a","b","c","d","e","f","g","h","i","j","k","l","m",
                  "n","o","p","q","r","s","t","u","v","w","x","y","z">>

UpperSet == {UpperLetters[i] : i \in DOMAIN UpperLetters}

LowerSet == {LowerLetters[i] : i \in DOMAIN LowerLetters}

\* BigDigits stands for one run of more decimal digits than int() converts
\* (sys.int_info.default_max_str_digits, 4300): \d+ matches it as it matches
\* any digit run, and int() raises ValueError on a run that holds it.
BigDigits == "9{4301}"

DecimalDigits == <<"0","1","2","3","4","5","6","7","8","9">>

DigitSet == {DecimalDigits[i] : i \in DOMAIN DecimalDigits} \cup {BigDigits}

WhiteSpace == {" ", "\t", "\n", "\r"}

LowerMap == [c \in UpperSet |-> LowerLetters[CHOOSE i \in DOMAIN UpperLetters : UpperLetters[i] = c]]

isalpha(c) == c \in UpperSet \/ c \in LowerSet

isupper(c) == c \in UpperSet

isdigit(c) == c \in DigitSet

isspace(c) == c \in WhiteSpace

\* \w of the re module: letters, digits and the underscore.
isword(c) == isalpha(c) \/ isdigit(c) \/ c = "_"

lower_char(c) == IF c \in UpperSet THEN LowerMap[c] ELSE c

\* str.lower()
lower(s) == [i \in 1..Len(s) |-> lower_char(s[i])]

\* s[i:j] of Python with 0 <= i <= j <= len(s), on 1-based positions i+1..j
Slice(s, i, j) == SubSeq(s, i + 1, j)

\* needle == s[i:i+len(needle)]
StartsAt(s, i, needle) ==
    /\ i + Len(needle) <= Len(s)
    /\ \A k \in 1..Len(needle) : s[i + k] = needle[k]

\* the "in" operator on two strings
Contains(needle, s) == \E i \in 0..(Len(s) - Len(needle)) : StartsAt(s, i, needle)

\* the character classes of the engine's patterns
InClass(c, cls) ==
    CASE cls = "[a-zA-Z]"  -> isalpha(c)
      [] cls = "[a-zA-Z ]" -> isalpha(c) \/ c = " "
      [] cls = "\\d"       -> isdigit(c)
      [] cls = "\\s"       -> isspace(c)
      [] cls = "\\S"       -> ~isspace(c)
      [] cls = "\\w"       -> isword(c)

\* the end (exclusive, 0-based) of the maximal run of characters of class cls
\* that starts at 0-based position i: what a greedy cls* consumes from i
RECURSIVE RunEnd(_, _, _)
RunEnd(s, i, cls) == IF i < Len(s) /\ InClass(s[i + 1], cls) THEN RunEnd(s, i + 1, cls) ELSE i

\* str.strip() without arguments
RECURSIVE lstrip(_)
lstrip(s) == IF s # <<>> /\ isspace(s[1]) THEN lstrip(Tail(s)) ELSE s

RECURSIVE rstrip(_)
rstrip(s) == IF s # <<>> /\ isspace(s[Len(s)]) THEN rstrip(SubSeq(s, 1, Len(s) - 1)) ELSE s

strip(s) == rstrip(lstrip(s))

\* str.split() without arguments: the maximal runs of non-whitespace, in order
RECURSIVE SplitFrom(_, _)
SplitFrom(s, i) ==
    IF i >= Len(s) THEN <<>>
    ELSE IF isspace(s[i + 1]) THEN SplitFrom(s, i + 1)
    ELSE LET e == RunEnd(s, i, "\\S")
         IN  <<Slice(s, i, e)>> \o SplitFrom(s, e)

split(s) == SplitFrom(s, 0)

\* \b of the re module at 0-based position i: exactly one side is a word character
WordBoundary(s, i) ==
    LET before == i > 0 /\ isword(s[i])
        after  == i < Len(s) /\ isword(s[i + 1])
    IN  before # after

\* re.findall(r"[a-zA-Z]+", s): the maximal runs of ASCII letters, in order
RECURSIVE FindAllLetters(_, _)
FindAllLetters(s, i) ==
    IF i >= Len(s) THEN <<>>
    ELSE IF ~isalpha(s[i + 1]) THEN FindAllLetters(s, i + 1)
    ELSE LET e == RunEnd(s, i, "[a-zA-Z]")
         IN  <<Slice(s, i, e)>> \o FindAllLetters(s, e)

(***************************************************************************)
(* Messages (app/models.py).  The engine reads member_name and text only.  *)
(***************************************************************************)
MemberMessage(name, text) == [member_name |-> name, text |-> text]

\* {m.member_name for m in messages if m.member_name}
unique_names(messages) ==
    {messages[i].member_name : i \in {j \in DOMAIN messages : Truthy(messages[j].member_name)}}

\* The iteration orders a set of str can have: the order follows the hashes of
\* the names, which the interpreter salts per process (PYTHONHASHSEED), so every
\* arrangement of the names is an order some process iterates in.
IterationOrders(S) ==
    {o \in [1..Cardinality(S) -> S] : \A n \in S : \E i \in DOMAIN o : o[i] = n}

\* msg_counts.get(name, 0) after the counting loop
msg_counts(messages, name) ==
    Cardinality({i \in DOMAIN messages :
                    Truthy(messages[i].member_name) /\ messages[i].member_name = name})

\* sorted(names, key=len, reverse=True): a stable sort, so names of equal
\* length keep the order in which the set yielded them
RECURSIVE InsertByLen(_, _)
InsertByLen(sorted, name) ==
    IF sorted = <<>> THEN <<name>>
    ELSE IF Len(Head(sorted)) >= Len(name)
         THEN <<Head(sorted)>> \o InsertByLen(Tail(sorted), name)
         ELSE <<name>> \o sorted

\* list(names): the names unsorted, as the set yields them
in_iteration_order(names) == names

RECURSIVE sorted_by_len_reverse(_)
sorted_by_len_reverse(names) ==
    IF names = <<>> THEN <<>>
    ELSE InsertByLen(sorted_by_len_reverse(SubSeq(names, 1, Len(names) - 1)),
                     names[Len(names)])

\* name.split()[0].lower(), or None where name.split() is empty
first_name(name) == LET parts == split(name) IN IF parts = <<>> THEN None ELSE lower(parts[1])

\* by_first.get(token, []): the full names whose lower-cased first name is
\* token, in the order the set yielded them
by_first(order, token) == SelectSeq(order, LAMBDA name : first_name(name) = token)

\* the full-name loop returning the lower-cased form it compared
RECURSIVE full_name_match_lowercased(_, _)
full_name_match_lowercased(q_lower, names) ==
    IF names = <<>> THEN None
    ELSE IF Head(names) # <<>> /\ Contains(lower(Head(names)), q_lower) THEN lower(Head(names))
    ELSE full_name_match_lowercased(q_lower, Tail(names))

\* the full-name loop: the first name of the sorted list whose lower-cased form
\* occurs in the lower-cased question
RECURSIVE full_name_match(_, _)
full_name_match(q_lower, names) ==
    IF names = <<>> THEN None
    ELSE IF Head(names) # <<>> /\ Contains(lower(Head(names)), q_lower) THEN Head(names)
    ELSE full_name_match(q_lower, Tail(names))

\* loop 2a: the first token that is the first name of exactly one member
RECURSIVE unique_first_name_match(_, _)
unique_first_name_match(order, tokens) ==
    IF tokens = <<>> THEN None
    ELSE IF Len(by_first(order, Head(tokens))) = 1 THEN by_first(order, Head(tokens))[1]
    ELSE unique_first_name_match(order, Tail(tokens))

\* score >= best_score: a candidate with an equal count replaces the best
beats_or_ties(score, best_score) == score >= best_score

\* the comparison of loop 2b that lets a candidate replace the best so far
beats(score, best_score) == score > best_score

\* the inner loop of 2b over the candidates of one token
RECURSIVE scan_candidates(_, _, _)
scan_candidates(messages, candidates, best) ==
    IF candidates = <<>> THEN best
    ELSE LET name  == Head(candidates)
             score == msg_counts(messages, name)
         IN  scan_candidates(messages, Tail(candidates),
                 IF beats(score, best.score) THEN [name |-> name, score |-> score] ELSE best)

\* loop 2b over the tokens
RECURSIVE popularity_match(_, _, _, _)
popularity_match(messages, order, tokens, best) ==
    IF tokens = <<>> THEN best
    ELSE LET candidates == by_first(order, Head(tokens))
         IN  popularity_match(messages, order, Tail(tokens),
                 IF Len(candidates) > 1 THEN scan_candidates(messages, candidates, best)
                 ELSE best)

find_member_name_in_question(question, messages, order) ==
    IF messages = <<>> THEN None
    ELSE LET q_lower == lower(question)
             tokens  == FindAllLetters(q_lower, 0)
             full    == full_name_match(q_lower, sorted_by_len_reverse(order))
             unique  == unique_first_name_match(order, tokens)
             best    == popularity_match(messages, order, tokens,
                                         [name |-> None, score |-> 0])
         IN  IF full # None THEN full
             ELSE IF unique # None THEN unique
             ELSE IF Truthy(best.name) THEN best.name
             ELSE None

\* re.search(r"\b([A-Za-z]+)'s\b", question).group(1), or None.  A match that
\* starts at i takes the whole run of letters from i, since only an apostrophe
\* may follow the group.
RECURSIVE possessive_from(_, _)
possessive_from(s, i) ==
    IF i >= Len(s) THEN None
    ELSE LET e == RunEnd(s, i, "[a-zA-Z]")
         IN  IF /\ WordBoundary(s, i)
                /\ e > i
                /\ StartsAt(s, e, <<"'", "s">>)
                /\ WordBoundary(s, e + 2)
             THEN Slice(s, i, e)
             ELSE possessive_from(s, i + 1)

\* re.sub(r"[^\w]", "", tok)
strip_non_word(tok) == SelectSeq(tok, isword)

\* the loop over question.split() that skips the first word
RECURSIVE capitalized_from(_, _)
capitalized_from(tokens, i) ==
    IF i > Len(tokens) THEN None
    ELSE IF i > 1 /\ isupper(tokens[i][1]) /\ strip_non_word(tokens[i]) # <<>>
         THEN strip_non_word(tokens[i])
    ELSE capitalized_from(tokens, i + 1)

extract_requested_first_name(question) ==
    LET m == possessive_from(question, 0)
    IN  IF m # None THEN m ELSE capitalized_from(split(question), 1)

(***************************************************************************)
(* difflib.SequenceMatcher(None, a, b).ratio() for strings shorter than    *)
(* 200 characters (no junk, no popularity heuristic).                      *)
(***************************************************************************)
\* the length of the common run of a from i and b from j (0-based), kept
\* inside a[:ahi] and b[:bhi]
RECURSIVE CommonRun(_, _, _, _, _, _)
CommonRun(a, b, i, j, ahi, bhi) ==
    IF i < ahi /\ j < bhi /\ a[i + 1] = b[j + 1]
    THEN 1 + CommonRun(a, b, i + 1, j + 1, ahi, bhi)
    ELSE 0

\* find_longest_match: the longest block of a[alo:ahi] and b[blo:bhi]; of the
\* longest, the one that starts earliest in a, then earliest in b
find_longest_match(a, b, alo, ahi, blo, bhi) ==
    LET starts == (alo..(ahi - 1)) \X (blo..(bhi - 1))
        size   == IF starts = {} THEN 0
                  ELSE CHOOSE k \in 0..(ahi - alo) :
                         /\ \E p \in starts : CommonRun(a, b, p[1], p[2], ahi, bhi) = k
                         /\ \A p \in starts : CommonRun(a, b, p[1], p[2], ahi, bhi) <= k
        best   == {p \in starts : CommonRun(a, b, p[1], p[2], ahi, bhi) = size}
        first  == CHOOSE p \in best :
                    \A r \in best : p[1] < r[1] \/ (p[1] = r[1] /\ p[2] <= r[2])
    IN  IF size = 0 THEN [i |-> alo, j |-> blo, size |-> 0]
        ELSE [i |-> first[1], j |-> first[2], size |-> size]

\* the sum of the sizes of get_matching_blocks(): the longest block, then the
\* blocks to its left and to its right
RECURSIVE matches(_, _, _, _, _, _)
matches(a, b, alo, ahi, blo, bhi) ==
    LET m == find_longest_match(a, b, alo, ahi, blo, bhi)
    IN  IF m.size = 0 THEN 0
        ELSE m.size
             + (IF alo < m.i /\ blo < m.j THEN matches(a, b, alo, m.i, blo, m.j) ELSE 0)
             + (IF m.i + m.size < ahi /\ m.j + m.size < bhi
                THEN matches(a, b, m.i + m.size, ahi, m.j + m.size, bhi) ELSE 0)

\* ratio() as the fraction 2.0 * matches / (len(a) + len(b)), 1.0 for two
\* empty strings
ratio(a, b) ==
    IF Len(a) + Len(b) = 0 THEN [num |-> 1, den |-> 1]
    ELSE [num |-> 2 * matches(a, b, 0, Len(a), 0, Len(b)), den |-> Len(a) + Len(b)]

ratio_gt(r, s) == r.num * s.den > s.num * r.den

ratio_ge(r, s) == r.num * s.den >= s.num * r.den

\* min_similarity: float = 0.80
min_similarity == [num |-> 80, den |-> 100]

\* the loop of suggest_similar_member_by_first_name over the set of names
RECURSIVE scan_similar(_, _, _)
scan_similar(requested, names, best) ==
    IF names = <<>> THEN best
    ELSE LET full_name == Head(names)
             first     == first_name(full_name)
         IN  scan_similar(requested, Tail(names),
                 IF first # None /\ ratio_gt(ratio(requested, first), best.ratio)
                 THEN [name |-> full_name, ratio |-> ratio(requested, first)]
                 ELSE best)

suggest_similar_member_by_first_name(requested_first_name, messages, order) ==
    LET best == scan_similar(lower(requested_first_name), order,
                             [name |-> None, ratio |-> [num |-> 0, den |-> 1]])
    IN  IF Truthy(best.name) /\ ratio_ge(best.ratio, min_similarity) THEN best.name
        ELSE None

\* the filter taking the messages without member_name for every member
filter_messages_with_nameless(messages, member_name) ==
    SelectSeq(messages, LAMBDA m : m.member_name = member_name \/ ~Truthy(m.member_name))

\* [m for m in messages if m.member_name == member_name]
filter_messages_for_member(messages, member_name) ==
    SelectSeq(messages, LAMBDA m : m.member_name = member_name)

(***************************************************************************)
(* The literals of the engine.                                             *)
(***************************************************************************)
S_how_many == <<"h","o","w"," ","m","a","n","y">>

S_car == <<"c","a","r">>

S_favorite == <<"f","a","v","o","r","i","t","e">>

S_restaurant == <<"r","e","s","t","a","u","r","a","n","t">>

S_when == <<"w","h","e","n">>

S_trip == <<"t","r","i","p">>

S_trip_to == <<"t","r","i","p"," ","t","o"," ">>

S_bar == <<" ","|"," ">>

\* The forms MONTH_PATTERN accepts for a month, in the order the pattern tries
\* them at one position: the alternatives left to right, and inside one
\* alternative the longer form first (the optional groups are greedy).
MonthForms ==
    <<<<"J","a","n","u","a","r","y">>,
      <<"J","a","n">>,
      <<"F","e","b","r","u","a","r","y">>,
      <<"F","e","b">>,
      <<"M","a","r","c","h">>,
      <<"M","a","r">>,
      <<"A","p","r","i","l">>,
      <<"A","p","r">>,
      <<"M","a","y">>,
      <<"J","u","n","e">>,
      <<"J","u","n">>,
      <<"J","u","l","y">>,
      <<"J","u","l">>,
      <<"A","u","g","u","s","t">>,
      <<"A","u","g">>,
      <<"S","e","p","t","e","m","b","e","r">>,
      <<"S","e","p","t">>,
      <<"S","e","p">>,
      <<"O","c","t","o","b","e","r">>,
      <<"O","c","t">>,
      <<"N","o","v","e","m","b","e","r">>,
      <<"N","o","v">>,
      <<"D","e","c","e","m","b","e","r">>,
      <<"D","e","c">>>>

OrdinalSuffixes == <<<<"s","t">>, <<"n","d">>, <<"r","d">>, <<"t","h">>>>

(***************************************************************************)
(* Answers.  An f-string is its template (kind) with the interpolated      *)
(* values (args), a returned message text is kind "text" with the text;    *)
(* an exception that leaves a function is kind "raise".                    *)
(***************************************************************************)
Answer(kind, args) == [kind |-> kind, args |-> args]

Raise(exception) == [kind |-> "raise", args |-> <<exception>>]

IsRaise(v) == v.kind = "raise"

\* seq[-1] of a list of messages: IndexError on an empty list
last_message(seq) ==
    IF seq = <<>> THEN Raise("IndexError") ELSE [kind |-> "ok", msg |-> seq[Len(seq)]]

(***************************************************************************)
(* Question classifier.                                                    *)
(***************************************************************************)
\* the classifier testing favorite_restaurants before car_count
detect_question_type_favorite_first(question) ==
    LET q == lower(question)
    IN  IF Contains(S_favorite, q) /\ Contains(S_restaurant, q) THEN "favorite_restaurants"
        ELSE IF Contains(S_how_many, q) /\ Contains(S_car, q) THEN "car_count"
        ELSE IF Contains(S_when, q) /\ Contains(S_trip, q) THEN "trip_when"
        ELSE "generic"

detect_question_type(question) ==
    LET q == lower(question)
    IN  IF Contains(S_how_many, q) /\ Contains(S_car, q) THEN "car_count"
        ELSE IF Contains(S_favorite, q) /\ Contains(S_restaurant, q) THEN "favorite_restaurants"
        ELSE IF Contains(S_when, q) /\ Contains(S_trip, q) THEN "trip_when"
        ELSE "generic"

(***************************************************************************)
(* Car count.                                                              *)
(***************************************************************************)
\* re.search(r"\b(\d+)\s+car", s).group(1), or None: leftmost start, the whole
\* digit run (whitespace must follow the group), the whole whitespace run
RECURSIVE car_pattern_from(_, _)
car_pattern_from(s, i) ==
    IF i >= Len(s) THEN None
    ELSE LET d == RunEnd(s, i, "\\d")
             w == RunEnd(s, d, "\\s")
         IN  IF WordBoundary(s, i) /\ d > i /\ w > d /\ StartsAt(s, w, S_car)
             THEN Slice(s, i, d)
             ELSE car_pattern_from(s, i + 1)

DigitValue(c) == (CHOOSE i \in DOMAIN DecimalDigits : DecimalDigits[i] = c) - 1

\* int(digits) for a run of decimal digits: the value, or ValueError for a run
\* longer than the interpreter converts
RECURSIVE int_value(_)
int_value(digits) ==
    IF digits = <<>> THEN 0
    ELSE 10 * int_value(SubSeq(digits, 1, Len(digits) - 1)) + DigitValue(digits[Len(digits)])

int(digits) ==
    IF \E i \in DOMAIN digits : digits[i] = BigDigits THEN Raise("ValueError")
    ELSE [kind |-> "int", value |-> int_value(digits)]

\* str(n) for n >= 0, as the f-string renders a count
RECURSIVE str(_)
str(n) == IF n < 10 THEN <<DecimalDigits[n + 1]>> ELSE str(n \div 10) \o <<DecimalDigits[(n % 10) + 1]>>

\* no except clause: the ValueError leaves extract_car_count_from_text
on_value_error_uncaught(converted) == converted

\* what the except clause of extract_car_count_from_text makes of int()'s outcome
on_value_error(converted) == IF IsRaise(converted) THEN [kind |-> "none"] ELSE converted

\* the count as [kind |-> "int", value |-> n], [kind |-> "none"] for None, or
\* the exception that leaves the function
extract_car_count_from_text(text) ==
    LET m == car_pattern_from(lower(text), 0)
    IN  IF m # None THEN on_value_error(int(m)) ELSE [kind |-> "none"]

\* the loop over messages, oldest first
RECURSIVE answer_car_count_oldest_first(_, _)
answer_car_count_oldest_first(member_name, messages) ==
    IF messages = <<>> THEN Answer("no_car_count", <<member_name>>)
    ELSE LET count == extract_car_count_from_text(messages[1].text)
         IN  IF IsRaise(count) THEN count
             ELSE IF count.kind = "int"
             THEN Answer("car_count",
                         <<member_name, str(count.value),
                           IF count.value # 1 THEN <<"s">> ELSE <<>> >>)
             ELSE answer_car_count_oldest_first(member_name, Tail(messages))

\* the loop over reversed(messages)
RECURSIVE answer_car_count(_, _)
answer_car_count(member_name, messages) ==
    IF messages = <<>> THEN Answer("no_car_count", <<member_name>>)
    ELSE LET count == extract_car_count_from_text(messages[Len(messages)].text)
         IN  IF IsRaise(count) THEN count
             ELSE IF count.kind = "int"
             THEN Answer("car_count",
                         <<member_name, str(count.value),
                           IF count.value # 1 THEN <<"s">> ELSE <<>> >>)
             ELSE answer_car_count(member_name, SubSeq(messages, 1, Len(messages) - 1))

(***************************************************************************)
(* Trip timing.                                                            *)
(***************************************************************************)
\* re.search(r"trip to ([A-Za-z ]+)\??", question, flags=re.IGNORECASE)
\* .group(1).strip(), or None
RECURSIVE destination_from(_, _)
destination_from(s, i) ==
    IF i >= Len(s) THEN None
    ELSE LET g == i + Len(S_trip_to)
             e == RunEnd(s, g, "[a-zA-Z ]")
         IN  IF StartsAt(lower(s), i, S_trip_to) /\ e > g THEN strip(Slice(s, g, e))
             ELSE destination_from(s, i + 1)

extract_destination_from_question(question) == destination_from(question, 0)

\* what \d{1,n} (n = 2) or \d{n} (n = 4) reads at 0-based position i: up to n
\* digits, text the digits read and end the position after them.  A run of
\* BigDigits yields as many of its digits as are asked for and is not left
\* (inside), so that only a digit can follow.
RECURSIVE leading_digits(_, _, _)
leading_digits(s, i, n) ==
    IF n = 0 \/ i >= Len(s) \/ ~isdigit(s[i + 1]) THEN [text |-> <<>>, end |-> i, inside |-> FALSE]
    ELSE IF s[i + 1] = BigDigits
         THEN [text |-> [k \in 1..n |-> "9"], end |-> i, inside |-> TRUE]
    ELSE LET more == leading_digits(s, i + 1, n - 1)
         IN  [text |-> <<s[i + 1]>> \o more.text, end |-> more.end, inside |-> more.inside]

\* the text the optional (?:st|nd|rd|th) matches at 0-based position i
ordinal_suffix(s, i) ==
    IF \E k \in DOMAIN OrdinalSuffixes : StartsAt(s, i, OrdinalSuffixes[k])
    THEN Slice(s, i, i + 2) ELSE <<>>

\* the text the optional (?:,\s*\d{4}) matches at 0-based position i
year_suffix(s, i) ==
    LET w == RunEnd(s, i + 1, "\\s")
        y == leading_digits(s, w, 4)
    IN  IF StartsAt(s, i, <<",">>) /\ Len(y.text) = 4 THEN Slice(s, i, w) \o y.text
        ELSE <<>>

\* the text that \s+\d{1,2}(?:st|nd|rd|th)?(?:,\s*\d{4})? matches at 0-based
\* position i, or None.  \s+ takes the whole whitespace run, \d{1,2} two digits
\* where there are two, and each optional group what is there.
month_tail(s, i) ==
    LET w   == RunEnd(s, i, "\\s")
        day == leading_digits(s, w, 2)
    IN  IF w = i \/ day.text = <<>> THEN None
        ELSE IF day.inside THEN Slice(s, i, w) \o day.text
        ELSE LET ord == ordinal_suffix(s, day.end)
             IN  Slice(s, i, day.end) \o ord \o year_suffix(s, day.end + Len(ord))

\* the match of MONTH_PATTERN that starts at 0-based position i, or None
RECURSIVE month_match_at(_, _, _)
month_match_at(s, i, k) ==
    IF k > Len(MonthForms) THEN None
    ELSE IF StartsAt(s, i, MonthForms[k]) /\ month_tail(s, i + Len(MonthForms[k])) # None
         THEN MonthForms[k] \o month_tail(s, i + Len(MonthForms[k]))
    ELSE month_match_at(s, i, k + 1)

\* re.search(MONTH_PATTERN, s).group(0), or None
RECURSIVE month_search(_, _)
month_search(s, i) ==
    IF i >= Len(s) THEN None
    ELSE IF WordBoundary(s, i) /\ month_match_at(s, i, 1) # None THEN month_match_at(s, i, 1)
    ELSE month_search(s, i + 1)

\* the number of digits of the digit run [i, e) of s
RunDigits(s, i, e) ==
    IF \E k \in (i + 1)..e : s[k] = BigDigits THEN 4301 ELSE e - i

\* the end of the match of DATE_SLASH_PATTERN that starts at 0-based position
\* i, or -1: each of the first two groups is a whole run of one or two digits
\* before its slash, the last a whole run of two to four digits before a \b
slash_match_end(s, i) ==
    LET d1 == RunEnd(s, i, "\\d")
        d2 == RunEnd(s, d1 + 1, "\\d")
        d3 == RunEnd(s, d2 + 1, "\\d")
    IN  IF /\ WordBoundary(s, i)
           /\ RunDigits(s, i, d1) \in 1..2 /\ StartsAt(s, d1, <<"/">>)
           /\ RunDigits(s, d1 + 1, d2) \in 1..2 /\ StartsAt(s, d2, <<"/">>)
           /\ RunDigits(s, d2 + 1, d3) \in 2..4 /\ WordBoundary(s, d3)
        THEN d3 ELSE -1

\* re.search(DATE_SLASH_PATTERN, s).group(0), or None
RECURSIVE slash_search(_, _)
slash_search(s, i) ==
    IF i >= Len(s) THEN None
    ELSE IF slash_match_end(s, i) # -1 THEN Slice(s, i, slash_match_end(s, i))
    ELSE slash_search(s, i + 1)

extract_date_phrase(text) ==
    LET m == month_search(text, 0)
    IN  IF m # None THEN m ELSE slash_search(text, 0)

\* what answer_trip_when does once it has the candidate messages: the guard
\* on an empty list, then the latest candidate
trip_from_candidates(candidate_msgs, not_found, found_kind, found_args) ==
    IF candidate_msgs = <<>> THEN not_found
    ELSE LET latest == last_message(candidate_msgs)
         IN  IF IsRaise(latest) THEN latest
             ELSE LET date_phrase == extract_date_phrase(latest.msg.text)
                  IN  IF Truthy(date_phrase) THEN Answer(found_kind, found_args \o <<date_phrase>>)
                      ELSE Answer("text", <<latest.msg.text>>)

\* the trip answer that looks for "trip" whatever destination the question names
answer_trip_when_unscoped(question, member_name, messages) ==
    trip_from_candidates(
        SelectSeq(messages, LAMBDA m : Contains(S_trip, lower(m.text))),
        Answer("no_trip", <<member_name>>),
        "trip_around", <<member_name>>)

answer_trip_when(question, member_name, messages) ==
    LET destination == extract_destination_from_question(question)
    IN  IF ~Truthy(destination)
        THEN trip_from_candidates(
                 SelectSeq(messages, LAMBDA m : Contains(S_trip, lower(m.text))),
                 Answer("no_trip", <<member_name>>),
                 "trip_around", <<member_name>>)
        ELSE trip_from_candidates(
                 SelectSeq(messages, LAMBDA m : Contains(lower(destination), lower(m.text))),
                 Answer("no_trip_to", <<member_name, destination>>),
                 "trip_to_around", <<member_name, destination>>)

(***************************************************************************)
(* Favorite restaurants.                                                   *)
(***************************************************************************)
\* sep.join(texts)
RECURSIVE join(_, _)
join(sep, texts) ==
    IF texts = <<>> THEN <<>>
    ELSE IF Len(texts) = 1 THEN texts[1]
    ELSE texts[1] \o sep \o join(sep, Tail(texts))

answer_favorite_restaurants(member_name, messages) ==
    LET mentions   == SelectSeq(messages, LAMBDA m :
                          /\ Contains(S_favorite, lower(m.text))
                          /\ Contains(S_restaurant, lower(m.text)))
        candidates == [i \in 1..Len(mentions) |-> mentions[i].text]
    IN  IF candidates = <<>> THEN Answer("no_favorite_restaurants", <<member_name>>)
        ELSE IF Len(candidates) = 1 THEN Answer("text", <<candidates[1]>>)
        ELSE Answer("favorite_restaurants", <<member_name, join(S_bar, candidates)>>)

(***************************************************************************)
(* The orchestrator.  The value is the returned answer together with the   *)
(* locals of the call at its return and the engine functions it called, in *)
(* call order; a local the call never assigned is Unset.                   *)
(***************************************************************************)
Unset == [kind |-> "unset", args |-> <<>>]

\* the generic fallback: member_msgs[-1].text
latest_text(member_msgs) ==
    LET latest_msg == last_message(member_msgs)
    IN  IF IsRaise(latest_msg) THEN latest_msg ELSE Answer("text", <<latest_msg.msg.text>>)

\* the extractor the orchestrator dispatches a question type to
extractor_of(qtype) ==
    CASE qtype = "car_count"            -> "answer_car_count"
      [] qtype = "trip_when"            -> "answer_trip_when"
      [] qtype = "favorite_restaurants" -> "answer_favorite_restaurants"
      [] OTHER                          -> "latest_text"

run_extractor(extractor, question, member_name, member_msgs) ==
    CASE extractor = "answer_car_count"            -> answer_car_count(member_name, member_msgs)
      [] extractor = "answer_trip_when"            -> answer_trip_when(question, member_name, member_msgs)
      [] extractor = "answer_favorite_restaurants" -> answer_favorite_restaurants(member_name, member_msgs)
      [] extractor = "latest_text"                 -> latest_text(member_msgs)

\* the suggestion asked for whether or not strict resolution found a member
wants_suggestion_always(member_name, requested_first_name) == Truthy(requested_first_name)

\* the condition under which the orchestrator asks for a fuzzy suggestion
wants_suggestion(member_name, requested_first_name) ==
    ~Truthy(member_name) /\ Truthy(requested_first_name)

\* the return of a call that got as far as the extractor, from its locals
answer_from_locals(strict, requested, attempted, suggested, member, msgs, qtype, core) ==
    [answer |-> IF IsRaise(core) THEN core
                ELSE IF Truthy(suggested) /\ Truthy(requested)
                THEN [kind |-> "clarification", args |-> <<requested, suggested>>,
                      core |-> core]
                ELSE core,
     calls |-> <<"find_member_name_in_question", "extract_requested_first_name">>
               \o (IF attempted THEN <<"suggest_similar_member_by_first_name">> ELSE <<>>)
               \o <<"filter_messages_for_member", "detect_question_type", extractor_of(qtype)>>,
     strict_name |-> strict, requested_first_name |-> requested,
     suggested_name |-> suggested, member_name |-> member, member_msgs |-> msgs,
     qtype |-> qtype, core_answer |-> core]

\* the call from the choice of member_name on: the two early returns, then the
\* filter, the question type and the extractor
answer_for_member(question, messages, strict, requested, attempted, suggested) ==
    LET member  == IF Truthy(suggested) THEN suggested ELSE strict
        msgs    == filter_messages_for_member(messages, member)
        qtype   == detect_question_type(question)
        resolve == <<"find_member_name_in_question", "extract_requested_first_name">>
                   \o (IF attempted THEN <<"suggest_similar_member_by_first_name">> ELSE <<>>)
        early(answer, calls, member_msgs) ==
            [answer |-> answer, calls |-> calls, strict_name |-> strict,
             requested_first_name |-> requested, suggested_name |-> suggested,
             member_name |-> member, member_msgs |-> member_msgs,
             qtype |-> "unset", core_answer |-> Unset]
    IN  IF ~Truthy(member)
        THEN early(Answer("cannot_identify", <<>>), resolve, <<>>)
        ELSE IF msgs = <<>>
        THEN early(Answer("no_messages", <<member>>),
                   resolve \o <<"filter_messages_for_member">>, msgs)
        ELSE answer_from_locals(strict, requested, attempted, suggested, member, msgs, qtype,
                                run_extractor(extractor_of(qtype), question, member, msgs))

\* the call from strict resolution on: the suggestion, asked for only when
\* wants_suggestion says so
answer_after_resolution(question, messages, order, strict, requested) ==
    answer_for_member(question, messages, strict, requested,
                      wants_suggestion(strict, requested),
                      IF wants_suggestion(strict, requested)
                      THEN suggest_similar_member_by_first_name(requested, messages, order)
                      ELSE None)

answer_question_baseline(question, messages, order) ==
    IF messages = <<>>
    THEN [answer |-> Answer("nothing_retrieved", <<>>), calls |-> <<>>,
          strict_name |-> None, requested_first_name |-> None,
          suggested_name |-> None, member_name |-> None, member_msgs |-> <<>>,
          qtype |-> "unset", core_answer |-> Unset]
    ELSE answer_after_resolution(question, messages, order,
                                 find_member_name_in_question(question, messages, order),
                                 extract_requested_first_name(question))

(***************************************************************************)
(* The requests checked: questions and message collections (what           *)
(* fetch_member_messages returns, oldest message first).                   *)
(***************************************************************************)
AlBo == <<"A","l"," ","B","o">>

AlCy == <<"A","l"," ","C","y">>

BoDi == <<"B","o"," ","D","i">>

AlB == <<"A","l"," ","B">>

Q_both_full_names == <<"T","e","l","l"," ","m","e"," ","a","b","o","u","t"," ","A","l"," ","C","y"," ","a","n","d"," ","A","l"," ","B","o">>

Q_ambiguous_token == <<"w","h","a","t"," ","a","b","o","u","t"," ","a","l">>

Q_ambiguous_then_unique == <<"i","s"," ","i","t"," ","a","l"," ","o","r"," ","b","o">>

Q_possessive_typo == <<"H","o","w"," ","m","a","n","y"," ","c","a","r","s"," ","i","n"," ","B","o","b","'","s"," ","g","a","r","a","g","e">>

Q_capitalized_typo == <<"H","o","w"," ","i","s"," ","A","l","f","?">>

Q_unknown_name == <<"W","h","o"," ","i","s"," ","B","o","b","o","?">>

Q_no_name == <<"w","h","o"," ","i","s"," ","t","h","a","t">>

Q_empty == <<>>

Q_lower_full_name == <<"a","s","k"," ","a","l"," ","b","o">>

Q_car_count == <<"H","o","w"," ","m","a","n","y"," ","c","a","r","s"," ","d","o","e","s"," ","A","l"," ","B","o"," ","h","a","v","e","?">>

Q_trip_to == <<"W","h","e","n"," ","i","s"," ","A","l"," ","B","o","'","s"," ","t","r","i","p"," ","t","o"," ","R","o","m","e","?">>

Q_trip == <<"W","h","e","n"," ","i","s"," ","A","l"," ","B","o","'","s"," ","t","r","i","p","?">>

Q_trip_to_blank == <<"w","h","e","n"," ","i","s"," ","a","l"," ","b","o","'","s"," ","t","r","i","p"," ","t","o"," "," ","?">>

Q_favorite == <<"W","h","a","t"," ","i","s"," ","A","l"," ","B","o","'","s"," ","f","a","v","o","r","i","t","e"," ","r","e","s","t","a","u","r","a","n","t","?">>

Q_car_and_favorite == <<"h","o","w"," ","m","a","n","y"," ","c","a","r","s"," ","a","t"," ","A","l"," ","B","o","'","s"," ","f","a","v","o","r","i","t","e"," ","r","e","s","t","a","u","r","a","n","t">>

Q_generic == <<"W","h","a","t"," ","a","b","o","u","t"," ","A","l"," ","B","o">>

T_one_car == <<"I"," ","h","a","v","e"," ","1"," ","c","a","r">>

T_no_cars_paris == <<"0","0"," ","c","a","r","s"," ","f","o","r"," ","m","y"," ","t","r","i","p"," ","t","o"," ","P","a","r","i","s"," ","1","/","2","/","2","5">>

T_big_cars_rome == <<"r","o","m","e"," ","t","r","i","p"," ","i","n"," ",BigDigits," ","c","a","r","s">>

T_rome_date == <<"R","o","m","e"," ","o","n"," ","M","a","y"," ","5","t","h",","," ","2","0","2","5">>

T_favorite == <<"M","y"," ","f","a","v","o","r","i","t","e"," ","r","e","s","t","a","u","r","a","n","t"," ","i","s"," ","N","o","b","u">>

T_seven_cars == <<"7"," ","c","a","r","s">>

T_rome_jun == <<"R","o","m","e"," ","J","u","n"," ","9">>

T_favorites == <<"F","a","v","o","r","i","t","e"," ","r","e","s","t","a","u","r","a","n","t","s",":"," ","Z","u","m","a">>

\* the longest collection of the resolution requests
MaxMsgs == 3

\* the longest collection of the extraction requests
MaxTexts == 2

\* the sequences over pool of length at most n
SeqsUpTo(pool, n) == UNION {[1..k -> pool] : k \in 0..n}

\* Resolution requests: four members (two pairs share the first name "al", two
\* names have the same length, one name is the start of another) and messages
\* without member_name, each message with a text of its own.
ResolutionQuestions ==
    {Q_both_full_names, Q_ambiguous_token, Q_ambiguous_then_unique, Q_possessive_typo, Q_capitalized_typo,
     Q_unknown_name, Q_no_name, Q_empty, Q_lower_full_name}

ResolutionPool ==
    {MemberMessage(AlBo, T_rome_date), MemberMessage(AlCy, T_favorite),
     MemberMessage(BoDi, T_seven_cars), MemberMessage(AlB, T_no_cars_paris),
     MemberMessage(None, T_rome_jun)}

\* Extraction requests: questions of every intent about Al Bo, over Al Bo's
\* messages mixed with messages of another member and messages without
\* member_name (absent and empty) that carry a count, a destination with a
\* date and a restaurant of their own.
ExtractionQuestions ==
    {Q_car_count, Q_trip_to, Q_trip, Q_trip_to_blank,
     Q_favorite, Q_car_and_favorite, Q_generic}

ExtractionPool ==
    {MemberMessage(AlBo, t) : t \in {T_one_car, T_no_cars_paris, T_big_cars_rome,
                                    T_rome_date, T_favorite}}
    \cup {MemberMessage(None, T_seven_cars), MemberMessage(<<>>, T_rome_jun),
          MemberMessage(BoDi, T_favorites)}

Requests ==
    (ResolutionQuestions \X SeqsUpTo(ResolutionPool, MaxMsgs))
    \cup (ExtractionQuestions \X SeqsUpTo(ExtractionPool, MaxTexts))

(***************************************************************************)
(* The service: one request (question, messages in the store) answered by  *)
(* the /ask handler, and answered again for the same question and store.   *)
(***************************************************************************)
VARIABLES question, messages, order, result, previous

vars == <<question, messages, order, result, previous>>

\* no call has returned yet
NoResult ==
    [answer |-> Unset, calls |-> <<>>, strict_name |-> None, requested_first_name |-> None,
     suggested_name |-> None, member_name |-> None, member_msgs |-> <<>>,
     qtype |-> "unset", core_answer |-> Unset]

Init ==
    /\ \E r \in Requests : question = r[1] /\ messages = r[2]
    /\ order = <<>>
    /\ result = NoResult
    /\ previous = Unset

\* GET /ask: the handler answers the question from the fetched messages, in a
\* process whose set of names iterates in the order o
Ask ==
    /\ result = NoResult
    /\ \E o \in IterationOrders(unique_names(messages)) :
         /\ order' = o
         /\ result' = answer_question_baseline(question, messages, o)
    /\ previous' = Unset
    /\ UNCHANGED <<question, messages>>

\* GET /ask again with the same question while the store holds the same
\* messages; the process that serves it has an iteration order of its own
AskAgain ==
    /\ result # NoResult
    /\ previous = Unset
    /\ \E o \in IterationOrders(unique_names(messages)) :
         /\ order' = o
         /\ result' = answer_question_baseline(question, messages, o)
    /\ previous' = result.answer
    /\ UNCHANGED <<question, messages>>

Next == Ask

Spec == Init /\ [][Next]_vars

NextRepeat == Ask \/ AskAgain

SpecRepeat == Init /\ [][NextRepeat]_vars

(***************************************************************************)
(* Properties.  They are read off the request (question, messages), the    *)
(* iteration order of the call and the result of the call.                 *)
(***************************************************************************)
Range(seq) == {seq[i] : i \in DOMAIN seq}

Min(S) == CHOOSE x \in S : \A y \in S : x <= y

Max(S) == CHOOSE x \in S : \A y \in S : x >= y

\* the call has returned
Asked == result # NoResult

\* the texts an answer can be: every kind but an exception
ReturnedKinds ==
    {"nothing_retrieved", "cannot_identify", "no_messages", "car_count", "no_car_count",
     "no_trip", "trip_around", "no_trip_to", "trip_to_around", "no_favorite_restaurants",
     "favorite_restaurants", "text", "clarification"}

Names == unique_names(messages)

Tokens == FindAllLetters(lower(question), 0)

\* the member names that occur, lower-cased, in the lower-cased question
Occurring == {n \in Names : Contains(lower(n), lower(question))}

\* the members whose lower-cased first name is the token
Owners(token) == {n \in Names : first_name(n) = token}

UniqueTokens ==
    LET tokens == Tokens IN {i \in DOMAIN tokens : Cardinality(Owners(tokens[i])) = 1}

AmbiguousTokens ==
    LET tokens == Tokens IN {i \in DOMAIN tokens : Cardinality(Owners(tokens[i])) > 1}

\* the number of messages whose member_name is the name
MessageCount(name) == Cardinality({i \in DOMAIN messages : messages[i].member_name = name})

\* the positions of the member's messages in the collection
PositionsOf(name) == {i \in DOMAIN messages : messages[i].member_name = name}

\* the positions of the messages without member_name (absent or empty)
Nameless == {i \in DOMAIN messages : messages[i].member_name \in {None, <<>>}}

\* the collection without its message at position i
Without(i) == SubSeq(messages, 1, i - 1) \o SubSeq(messages, i + 1, Len(messages))

\* C1: a call of answer_question_baseline never raises: whatever the question
\* and the collection, it returns a text.
C1_NeverRaises == Asked => result.answer.kind \in ReturnedKinds

\* a count that int() does not convert ended in the not-found text
C1_Witness ==
    /\ Asked
    /\ result.qtype = "car_count"
    /\ \E i \in PositionsOf(result.member_name) :
          \E k \in DOMAIN messages[i].text : messages[i].text[k] = BigDigits
    /\ result.answer.kind = "no_car_count"

\* C2: strict resolution applies its rules in priority order: a member name
\* that occurs in the question wins, and of the occurring names one of maximal
\* length; else the member of the earliest token that is the first name of
\* exactly one member; else a most popular member among those that share a
\* first name with a token; else none.
C2_ResolutionPriority ==
    Asked /\ messages # <<>> =>
       LET tokens    == Tokens
           occurring == Occurring
           unique    == UniqueTokens
           ambiguous == AmbiguousTokens
       IN  /\ occurring # {} =>
                 /\ result.strict_name \in occurring
                 /\ \A n \in occurring : Len(n) <= Len(result.strict_name)
           /\ occurring = {} /\ unique # {} =>
                 {result.strict_name} = Owners(tokens[Min(unique)])
           /\ occurring = {} /\ unique = {} /\ ambiguous # {} =>
                 \E i \in ambiguous :
                    /\ result.strict_name \in Owners(tokens[i])
                    /\ \A j \in ambiguous : \A n \in Owners(tokens[j]) :
                          MessageCount(n) <= MessageCount(result.strict_name)
           /\ occurring = {} /\ unique = {} /\ ambiguous = {} =>
                 result.strict_name = None

\* a unique first name resolved although an ambiguous first name comes
\* earlier in the question
C2_Witness ==
    /\ Asked
    /\ Occurring = {}
    /\ UniqueTokens # {}
    /\ \E i \in AmbiguousTokens : i < Min(UniqueTokens)
    /\ result.strict_name = BoDi

\* C3: answering the same question over the same messages twice gives the
\* same answer, whatever order the set of member names iterates in.
C3_SameAnswerTwice == previous # Unset => result.answer = previous

\* the candidates of the popularity rule in the order the rule finds them:
\* token by token, and for one token in the order of its list of full names
RECURSIVE FoundFrom(_, _, _)
FoundFrom(tokens, ambiguous, i) ==
    IF i > Len(tokens) THEN <<>>
    ELSE (IF i \in ambiguous THEN by_first(order, tokens[i]) ELSE <<>>)
         \o FoundFrom(tokens, ambiguous, i + 1)

Found == FoundFrom(Tokens, AmbiguousTokens, 1)

PopularityApplies == Asked /\ Occurring = {} /\ UniqueTokens = {} /\ AmbiguousTokens # {}

Reaching ==
    LET requested == extract_requested_first_name(question)
    IN  {n \in Names : /\ requested # None
                       /\ first_name(n) # None
                       /\ ratio_ge(ratio(lower(requested), first_name(n)), min_similarity)}

\* what the extractor of the question's intent answers for the member
CoreAnswerFor(name) ==
    run_extractor(extractor_of(detect_question_type(question)), question, name,
                  SelectSeq(messages, LAMBDA m : m.member_name = name))

\* C5: on a non-empty collection the fuzzy suggestion is attempted only after
\* strict resolution returned none; the answer is the clarification around
\* the core answer exactly when strict resolution failed and a member's first
\* name reaches the threshold; it is the cannot-identify text when strict
\* resolution failed and no first name was extracted or none reaches the
\* threshold; and it is the bare core answer when strict resolution succeeded.
C5_ClarificationIffFuzzy ==
    Asked /\ messages # <<>> =>
       /\ "suggest_similar_member_by_first_name" \in Range(result.calls)
             => result.strict_name = None
       /\ result.answer.kind = "clarification"
             <=> (result.strict_name = None /\ Reaching # {})
       /\ result.strict_name = None /\ Reaching # {} =>
             /\ result.answer.args[1] = extract_requested_first_name(question)
             /\ result.answer.args[2] \in Reaching
             /\ result.answer.core = CoreAnswerFor(result.answer.args[2])
       /\ result.strict_name = None /\ Reaching = {} =>
             result.answer = Answer("cannot_identify", <<>>)
       /\ result.strict_name # None =>
             result.answer = CoreAnswerFor(result.strict_name)

\* a first name with a typo was answered with the clarification
C5_Witness ==
    /\ Asked
    /\ result.strict_name = None
    /\ result.answer.kind = "clarification"
    /\ result.answer.args[1] # lower(result.answer.args[1])

\* the digits of the "<integer> car" pattern in the text, or None
CarPatternIn(text) == car_pattern_from(lower(text), 0)

\* the rendering of a count for the member
CarCountAnswer(name, n) ==
    Answer("car_count", <<name, str(n), IF n = 1 THEN <<>> ELSE <<"s">> >>)

\* C6 as stated: the count reported is the one in the member's most recent
\* message that contains the pattern, "car" for 1 and "cars" otherwise, and
\* the not-found text when no message of the member contains the pattern.
C6_LatestPatternCount ==
    Asked /\ result.qtype = "car_count" =>
       LET hits == {i \in PositionsOf(result.member_name) :
                       CarPatternIn(messages[i].text) # None}
       IN  IF hits = {}
           THEN result.core_answer = Answer("no_car_count", <<result.member_name>>)
           ELSE LET digits == CarPatternIn(messages[Max(hits)].text)
                IN  /\ BigDigits \notin Range(digits)
                    /\ result.core_answer
                          = CarCountAnswer(result.member_name, int_value(digits))

\* C6 as amended: the same, of the messages whose number int() converts.
C6_LatestConvertibleCount ==
    Asked /\ result.qtype = "car_count" =>
       LET hits == {i \in PositionsOf(result.member_name) :
                       /\ CarPatternIn(messages[i].text) # None
                       /\ BigDigits \notin Range(CarPatternIn(messages[i].text))}
       IN  IF hits = {}
           THEN result.core_answer = Answer("no_car_count", <<result.member_name>>)
           ELSE result.core_answer
                   = CarCountAnswer(result.member_name,
                                    int_value(CarPatternIn(messages[Max(hits)].text)))

\* two messages of the member carry different counts and the later one is
\* reported
C6_Witness ==
    /\ Asked
    /\ result.qtype = "car_count"
    /\ \E i, j \in PositionsOf(result.member_name) :
          /\ i < j
          /\ CarPatternIn(messages[i].text) # None
          /\ CarPatternIn(messages[j].text) # None
          /\ BigDigits \notin Range(CarPatternIn(messages[i].text))
          /\ BigDigits \notin Range(CarPatternIn(messages[j].text))
          /\ int_value(CarPatternIn(messages[i].text)) # int_value(CarPatternIn(messages[j].text))
          /\ result.answer
                = CarCountAnswer(result.member_name, int_value(CarPatternIn(messages[j].text)))

\* the destination the question names, or None
Destination == extract_destination_from_question(question)

\* the positions of the member's messages that mention the destination
Mentioning(name) ==
    {i \in PositionsOf(name) : Contains(lower(Destination), lower(messages[i].text))}

\* C7: for a trip question that names a destination, the answer comes from the
\* member's last message that mentions the destination: its date phrase, or
\* its text where it has no date phrase; and it is the not-found text naming
\* member and destination where no message of the member mentions it.
C7_TripDestinationScoping ==
    Asked /\ result.qtype = "trip_when" /\ Truthy(Destination) =>
       LET name == result.member_name
       IN  IF Mentioning(name) = {}
           THEN result.core_answer = Answer("no_trip_to", <<name, Destination>>)
           ELSE LET source == messages[Max(Mentioning(name))]
                    date   == extract_date_phrase(source.text)
                IN  result.core_answer
                       = IF date # None
                         THEN Answer("trip_to_around", <<name, Destination, date>>)
                         ELSE Answer("text", <<source.text>>)

\* the member's latest message holds a trip and a date but not the
\* destination, and the date reported is the one of an older message
C7_Witness ==
    /\ Asked
    /\ result.qtype = "trip_when"
    /\ Truthy(Destination)
    /\ Mentioning(result.member_name) # {}
    /\ LET latest == messages[Max(PositionsOf(result.member_name))]
       IN  /\ Max(PositionsOf(result.member_name)) \notin Mentioning(result.member_name)
           /\ Contains(S_trip, lower(latest.text))
           /\ extract_date_phrase(latest.text) # None
           /\ result.answer.kind = "trip_to_around"
           /\ result.answer.args[3] # extract_date_phrase(latest.text)

Extractors ==
    {"answer_car_count", "answer_trip_when", "answer_favorite_restaurants", "latest_text"}

\* the intent by the declared priority
IntentByPriority ==
    LET q == lower(question)
    IN  IF Contains(S_how_many, q) /\ Contains(S_car, q) THEN "car_count"
        ELSE IF Contains(S_favorite, q) /\ Contains(S_restaurant, q) THEN "favorite_restaurants"
        ELSE IF Contains(S_when, q) /\ Contains(S_trip, q) THEN "trip_when"
        ELSE "generic"

\* the answers each extractor can give
AnswersOf(extractor) ==
    CASE extractor = "answer_car_count" -> {"car_count", "no_car_count"}
      [] extractor = "answer_trip_when" ->
            {"no_trip", "trip_around", "no_trip_to", "trip_to_around", "text"}
      [] extractor = "answer_favorite_restaurants" ->
            {"no_favorite_restaurants", "favorite_restaurants", "text"}
      [] extractor = "latest_text" -> {"text"}

ExtractorOfIntent(intent) ==
    CASE intent = "car_count"            -> "answer_car_count"
      [] intent = "favorite_restaurants" -> "answer_favorite_restaurants"
      [] intent = "trip_when"            -> "answer_trip_when"
      [] intent = "generic"              -> "latest_text"

\* C8: a question has the one intent the priority car_count,
\* favorite_restaurants, trip_when, generic gives it; a call runs at most one
\* extractor, the one of that intent, as its last step and after the member
\* was resolved and the member's messages were found non-empty; and the calls
\* that end in the nothing-retrieved, cannot-identify or no-messages text run
\* no extractor.
C8_OneExtractorByPriority ==
    Asked =>
       LET ran == {i \in DOMAIN result.calls : result.calls[i] \in Extractors}
       IN  /\ Cardinality(ran) <= 1
           /\ result.answer.kind \in {"nothing_retrieved", "cannot_identify", "no_messages"}
                 => ran = {}
           /\ result.qtype # "unset" => result.qtype = IntentByPriority
           /\ ran # {} =>
                 /\ ran = {Len(result.calls)}
                 /\ result.calls[Len(result.calls)] = ExtractorOfIntent(IntentByPriority)
                 /\ result.core_answer.kind \in AnswersOf(ExtractorOfIntent(IntentByPriority))
                 /\ Truthy(result.member_name)
                 /\ result.member_msgs # <<>>
                 /\ \E i \in DOMAIN result.calls :
                       /\ result.calls[i] = "filter_messages_for_member"
                       /\ i < Len(result.calls)
           /\ ran = {} =>
                 result.answer.kind \in {"nothing_retrieved", "cannot_identify", "no_messages"}

\* a question with the keywords of car_count and of favorite_restaurants ran
\* the car-count extractor over messages that mention a favorite restaurant
C8_Witness ==
    /\ Asked
    /\ Contains(S_favorite, lower(question)) /\ Contains(S_restaurant, lower(question))
    /\ Contains(S_how_many, lower(question)) /\ Contains(S_car, lower(question))
    /\ \E i \in DOMAIN result.member_msgs :
          Contains(S_favorite, lower(result.member_msgs[i].text))
    /\ result.calls[Len(result.calls)] = "answer_car_count"
    /\ result.answer.kind = "car_count"

\* C9: a message without member_name takes no part in a call: without it (the
\* collection staying non-empty) the names are the same, strict resolution and
\* the suggestion give the same member, the member's messages are the same and
\* the answer is the same.
C9_NamelessMessagesIgnored ==
    Asked /\ Len(messages) > 1 =>
       \A i \in Nameless :
          LET other == answer_question_baseline(question, Without(i), order)
          IN  /\ unique_names(Without(i)) = Names
              /\ other.strict_name = result.strict_name
              /\ other.suggested_name = result.suggested_name
              /\ other.member_msgs = result.member_msgs
              /\ other.answer = result.answer

\* a message without member_name that carries what the question asks for
\* comes after the member's messages, and the answer is the member's
C9_Witness ==
    /\ Asked
    /\ result.qtype = "car_count"
    /\ result.answer.kind = "car_count"
    /\ \E i \in Nameless :
          /\ i > Max(PositionsOf(result.member_name))
          /\ CarPatternIn(messages[i].text) # None
          /\ str(int_value(CarPatternIn(messages[i].text))) # result.answer.args[2]

\* C10: a member that strict resolution or the suggestion returns has a
\* message in the collection, so the member's messages are never empty and no
\* call ends in the no-messages text.
C10_ResolvedMemberHasMessages ==
    Asked =>
       /\ result.strict_name # None => PositionsOf(result.strict_name) # {}
       /\ result.suggested_name # None => PositionsOf(result.suggested_name) # {}
       /\ Truthy(result.member_name) => result.member_msgs # <<>>
       /\ result.answer.kind # "no_messages"

\* a member resolved by its lower-cased full name has its messages found
C10_Witness ==
    /\ Asked
    /\ question = Q_lower_full_name
    /\ result.strict_name = AlBo
    /\ Len(result.member_msgs) > 1

=============================================================================
